---- MODULE Spec2Model ----
(***************************************************************************)
(* Model of backend/app.py: the GET /solve handler and solve_equation.     *)
(* A string is a sequence of one-character strings.  The symbolic engine   *)
(* (parse_expr, Eq, solve, simplify, evalf) is modelled on the fragment of *)
(* linear expressions over the symbols a, x, y with absolute-value atoms.  *)
(***************************************************************************)
EXTENDS Integers, Sequences, FiniteSets, TLC

\* Largest number literal written in a request.
MaxNum == 3

(***************************************************************************)
(* Characters                                                              *)
(***************************************************************************)
\* The Unicode minus sign U+2212, one character.
UMINUS == "U+2212"

\* The three characters of the literal on line 24 of app.py:
\* U+00E2, U+02C6, U+2019.
MinusLiteral == <<"U+00E2", "U+02C6", "U+2019">>

Whitespace == {" ", "\t"}

DigitChars == <<"0", "1", "2", "3", "4", "5", "6", "7", "8", "9">>

IsDigit(c) == \E d \in 1..10 : DigitChars[d] = c

DigitVal(c) == (CHOOSE d \in 1..10 : DigitChars[d] = c) - 1

\* The decimal numeral of n, 0 <= n <= 99.
Num(n) == IF n < 10 THEN <<DigitChars[n + 1]>>
          ELSE <<DigitChars[(n \div 10) + 1], DigitChars[(n % 10) + 1]>>

(***************************************************************************)
(* str methods                                                             *)
(***************************************************************************)
RECURSIVE LStrip(_)
LStrip(s) == IF s # <<>> /\ s[1] \in Whitespace THEN LStrip(Tail(s)) ELSE s

RECURSIVE RStrip(_)
RStrip(s) == IF s # <<>> /\ s[Len(s)] \in Whitespace
             THEN RStrip(SubSeq(s, 1, Len(s) - 1)) ELSE s

\* str.strip()
Strip(s) == RStrip(LStrip(s))

\* str.replace(old, new): every non-overlapping occurrence, left to right.
RECURSIVE Replace(_, _, _)
Replace(s, old, new) ==
    IF Len(s) < Len(old) THEN s
    ELSE IF SubSeq(s, 1, Len(old)) = old
         THEN new \o Replace(SubSeq(s, Len(old) + 1, Len(s)), old, new)
         ELSE <<s[1]>> \o Replace(Tail(s), old, new)

Contains(s, c) == \E i \in 1..Len(s) : s[i] = c

\* Index of the first c in s (0 when there is none).
IndexOf(s, c) == IF Contains(s, c)
                 THEN CHOOSE i \in 1..Len(s) : s[i] = c /\ \A j \in 1..(i - 1) : s[j] # c
                 ELSE 0

\* re.sub(r'\|([^|]+)\|', replace_abs, s): leftmost matches, each a bar, a
\* non-empty run of non-bar characters, and the next bar.
RECURSIVE SubAbs(_)
SubAbs(s) ==
    IF s = <<>> THEN <<>>
    ELSE IF s[1] = "|"
         THEN LET j == IndexOf(Tail(s), "|")
              IN  IF j > 1
                  THEN <<"A", "b", "s", "(">> \o SubSeq(s, 2, j) \o <<")">>
                       \o SubAbs(SubSeq(s, j + 2, Len(s)))
                  ELSE <<"|">> \o SubAbs(Tail(s))
         ELSE <<s[1]>> \o SubAbs(Tail(s))

\* Lines 24-32 of solve_equation.
ReplaceMinus(s) == Replace(s, MinusLiteral, <<"-">>)

ReplaceCaret(s) == Replace(s, <<"^">>, <<"*", "*">>)

Normalise(s) == SubAbs(ReplaceCaret(ReplaceMinus(s)))

(***************************************************************************)
(* What parse_expr returns: a symbolic expression                          *)
(*   k + SUM cf[v]*v + SUM coef*Abs(inner)          (kind "scalar")        *)
(* or a Python list of n numbers (kind "list"), which sympify refuses.     *)
(***************************************************************************)
Symbols == {"a", "x", "y"}

\* str(symbol) as code points, the sort key of line 65.
CodePoints == [a |-> <<97>>, x |-> <<120>>, y |-> <<121>>]

ZeroCf == [v \in Symbols |-> 0]

Const(k) == [kind |-> "scalar", k |-> k, cf |-> ZeroCf, ab |-> {}, n |-> 0]

Sym(v) == [kind |-> "scalar", k |-> 0, cf |-> [ZeroCf EXCEPT ![v] = 1], ab |-> {}, n |-> 0]

PyList(n) == [kind |-> "list", k |-> 0, cf |-> ZeroCf, ab |-> {}, n |-> n]

CoefOf(ab, inner) == IF \E t \in ab : t.inner = inner
                     THEN (CHOOSE t \in ab : t.inner = inner).coef
                     ELSE 0

\* Scalar sum, like terms collected and zero terms dropped.
Add(e1, e2) ==
    LET inners == {t.inner : t \in e1.ab \cup e2.ab}
        summed == {[inner |-> i, coef |-> CoefOf(e1.ab, i) + CoefOf(e2.ab, i)] : i \in inners}
    IN  [kind |-> "scalar", k |-> e1.k + e2.k,
         cf |-> [v \in Symbols |-> e1.cf[v] + e2.cf[v]],
         ab |-> {t \in summed : t.coef # 0}, n |-> 0]

Scale(e, m) ==
    [kind |-> "scalar", k |-> m * e.k, cf |-> [v \in Symbols |-> m * e.cf[v]],
     ab |-> {[inner |-> t.inner, coef |-> m * t.coef] : t \in {u \in e.ab : m # 0}}, n |-> 0]

Sub(e1, e2) == Add(e1, Scale(e2, -1))

AbsInt(k) == IF k < 0 THEN -k ELSE k

\* Symbols outside absolute values.
OuterSymbols(e) == {v \in Symbols : e.cf[v] # 0}

InnerSymbols(e) == {v \in Symbols : \E t \in e.ab : t.inner.cf[v] # 0}

\* expr.free_symbols
FreeSymbols(e) == OuterSymbols(e) \cup InnerSymbols(e)

\* expr.atoms(Abs)
AbsAtoms(e) == {t.inner : t \in e.ab}

\* expr.is_number
IsNumber(e) == e.kind = "scalar" /\ FreeSymbols(e) = {} /\ e.ab = {}

\* Abs(e): evaluated on a number, an atom otherwise.
AbsOf(e) ==
    IF IsNumber(e) THEN Const(AbsInt(e.k))
    ELSE [kind |-> "scalar", k |-> 0, cf |-> ZeroCf,
          ab |-> {[inner |-> [k |-> e.k, cf |-> e.cf], coef |-> 1]}, n |-> 0]

\* The argument of an Abs atom as an expression (abs_expr.args[0]).
InnerExpr(inner) == [kind |-> "scalar", k |-> inner.k, cf |-> inner.cf, ab |-> {}, n |-> 0]

(***************************************************************************)
(* parse_expr(text, transformations='all') on the fragment                 *)
(*   sum  ::= ['+'|'-'] term { ('+'|'-') term }                            *)
(*   term ::= number | [number ['*']] atom ['**' '1']                      *)
(*   atom ::= symbol | 'Abs(' sum ')'      (no Abs inside an Abs)          *)
(*   or a whole side '[' number { ',' number } ']', a Python list.         *)
(* parse_expr raises on the empty string, on a lone '=' and on a stray     *)
(* character such as U+2212; so does the reader.  Texts outside the        *)
(* fragment (other exponents, products of symbols) are not modelled: the   *)
(* reader rejects them, and Requests holds none.                           *)
(* The text is read left to right; the reader's state is                   *)
(*   ph: what is expected next, e: the terms read so far, inner: the terms *)
(*   read inside the open Abs(, depth: 1 inside an Abs(, sgn and num: the  *)
(*   sign and the coefficient of the term being read, absCoef: those of    *)
(*   the open Abs(, pexp: the exponent being read.                         *)
(***************************************************************************)
ParseStart ==
    [ok |-> TRUE, ph |-> "first", e |-> Const(0), inner |-> Const(0), depth |-> 0,
     sgn |-> 1, num |-> 1, absCoef |-> 1, pexp |-> 0]

Failed(st) == [st EXCEPT !.ok = FALSE]

SignOf(c) == IF c = "-" THEN -1 ELSE 1

\* The term t joins the sum being read.
AddTerm(st, t) ==
    IF st.depth = 1 THEN [st EXCEPT !.inner = Add(@, t)] ELSE [st EXCEPT !.e = Add(@, t)]

\* The closing parenthesis of Abs( ... ).
CloseAbs(st) ==
    [st EXCEPT !.e = Add(@, Scale(AbsOf(st.inner), st.absCoef)),
               !.inner = Const(0), !.depth = 0, !.ph = "atom"]

\* After a complete atom.
StepAtom(st, c) ==
    IF c \in Whitespace THEN [st EXCEPT !.ph = "atom"]
    ELSE IF c \in {"+", "-"} THEN [st EXCEPT !.sgn = SignOf(c), !.num = 1, !.ph = "sign"]
    ELSE IF c = ")" /\ st.depth = 1 THEN CloseAbs(st)
    ELSE IF c = "*" /\ st.ph = "atom" THEN [st EXCEPT !.ph = "pow1"]
    ELSE Failed(st)

\* After a number.
StepNum(st, c) ==
    IF c \in Whitespace THEN [st EXCEPT !.ph = "numws"]
    ELSE IF IsDigit(c)
    THEN IF st.ph = "num" THEN [st EXCEPT !.num = 10 * @ + DigitVal(c)] ELSE Failed(st)
    ELSE IF c = "*" THEN [st EXCEPT !.ph = "star"]
    ELSE IF c \in Symbols
    THEN [AddTerm(st, Scale(Sym(c), st.sgn * st.num)) EXCEPT !.ph = "atom"]
    ELSE IF c = "A" /\ st.depth = 0 THEN [st EXCEPT !.ph = "A1"]
    ELSE IF c \in {"+", "-"}
    THEN [AddTerm(st, Const(st.sgn * st.num)) EXCEPT !.sgn = SignOf(c), !.num = 1, !.ph = "sign"]
    ELSE IF c = ")" /\ st.depth = 1 THEN CloseAbs(AddTerm(st, Const(st.sgn * st.num)))
    ELSE Failed(st)

\* Where a term must begin.
StepTerm(st, c) ==
    IF c \in Whitespace THEN st
    ELSE IF c \in {"+", "-"} /\ st.ph = "first" THEN [st EXCEPT !.sgn = SignOf(c), !.ph = "sign"]
    ELSE IF IsDigit(c) /\ st.ph # "star" THEN [st EXCEPT !.num = DigitVal(c), !.ph = "num"]
    ELSE IF c \in Symbols
    THEN [AddTerm(st, Scale(Sym(c), st.sgn * st.num)) EXCEPT !.ph = "atom"]
    ELSE IF c = "A" /\ st.depth = 0 THEN [st EXCEPT !.ph = "A1"]
    ELSE Failed(st)

\* Inside the name Abs and at its opening parenthesis.
StepAbsName(st, c) ==
    IF st.ph = "A1" /\ c = "b" THEN [st EXCEPT !.ph = "A2"]
    ELSE IF st.ph = "A2" /\ c = "s" THEN [st EXCEPT !.ph = "A3"]
    ELSE IF st.ph = "A3" /\ c = "("
    THEN [st EXCEPT !.depth = 1, !.absCoef = st.sgn * st.num, !.inner = Const(0),
                    !.sgn = 1, !.num = 1, !.ph = "first"]
    ELSE Failed(st)

\* Inside '**' exponent.
StepPower(st, c) ==
    IF st.ph = "pow1" THEN (IF c = "*" THEN [st EXCEPT !.ph = "pow2"] ELSE Failed(st))
    ELSE IF st.ph = "pow2"
    THEN IF c \in Whitespace THEN st
         ELSE IF IsDigit(c) THEN [st EXCEPT !.pexp = DigitVal(c), !.ph = "powd"]
         ELSE Failed(st)
    ELSE IF IsDigit(c) THEN [st EXCEPT !.pexp = 10 * @ + DigitVal(c)]
    ELSE IF st.pexp = 1 THEN StepAtom(st, c)
    ELSE Failed(st)

Step(st, c) ==
    IF ~st.ok THEN st
    ELSE IF st.ph \in {"first", "sign", "star"} THEN StepTerm(st, c)
    ELSE IF st.ph \in {"num", "numws"} THEN StepNum(st, c)
    ELSE IF st.ph \in {"A1", "A2", "A3"} THEN StepAbsName(st, c)
    ELSE IF st.ph = "atom" THEN StepAtom(st, c)
    ELSE StepPower(st, c)

RECURSIVE Read(_, _, _)
Read(s, i, st) == IF i > Len(s) THEN st ELSE Read(s, i + 1, Step(st, s[i]))

\* At the end of the text: [ok, e].
Finish(st) ==
    IF ~st.ok \/ st.depth # 0 THEN [ok |-> FALSE, e |-> Const(0)]
    ELSE IF st.ph \in {"num", "numws"}
    THEN [ok |-> TRUE, e |-> Add(st.e, Const(st.sgn * st.num))]
    ELSE IF st.ph = "atom" \/ (st.ph = "powd" /\ st.pexp = 1) THEN [ok |-> TRUE, e |-> st.e]
    ELSE [ok |-> FALSE, e |-> Const(0)]

At(s, i) == IF i >= 1 /\ i <= Len(s) THEN s[i] ELSE "EOF"

RECURSIVE ReadDigits(_, _, _)
ReadDigits(s, i, acc) ==
    IF IsDigit(At(s, i)) THEN ReadDigits(s, i + 1, 10 * acc + DigitVal(s[i]))
    ELSE [n |-> acc, i |-> i]

RECURSIVE SkipWs(_, _)
SkipWs(s, i) == IF At(s, i) \in Whitespace THEN SkipWs(s, i + 1) ELSE i

\* '[' number { ',' number } ']': the list's length, 0 when s is no such text.
RECURSIVE ListItems(_, _, _)
ListItems(s, i, n) ==
    IF ~IsDigit(At(s, i)) THEN 0
    ELSE IF At(s, ReadDigits(s, i, 0).i) = "]"
    THEN IF ReadDigits(s, i, 0).i = Len(s) THEN n + 1 ELSE 0
    ELSE IF At(s, ReadDigits(s, i, 0).i) = ","
    THEN ListItems(s, SkipWs(s, ReadDigits(s, i, 0).i + 1), n + 1)
    ELSE 0

\* parse_expr: [ok, e]; ok = FALSE when parse_expr raises.
ParseExpr(s) ==
    IF At(s, 1) = "["
    THEN IF ListItems(s, 2, 0) > 0 THEN [ok |-> TRUE, e |-> PyList(ListItems(s, 2, 0))]
         ELSE [ok |-> FALSE, e |-> Const(0)]
    ELSE Finish(Read(s, 1, ParseStart))

(***************************************************************************)
(* Eq, free_symbols, atoms(Abs)                                            *)
(***************************************************************************)
NoExpr == Const(0)

\* An Equality that stays unevaluated, or the BooleanAtom Eq evaluated to.
Relational(l, r) == [rel |-> TRUE, truth |-> FALSE, lhs |-> l, rhs |-> r]

BooleanAtom(b) == [rel |-> FALSE, truth |-> b, lhs |-> NoExpr, rhs |-> NoExpr]

\* lhs - rhs is known to be nonzero from the signs of its terms: a nonzero
\* number plus absolute values with coefficients of the same sign.
SignDefinite(dif) ==
    /\ OuterSymbols(dif) = {}
    /\ \/ dif.k > 0 /\ \A t \in dif.ab : t.coef > 0
       \/ dif.k < 0 /\ \A t \in dif.ab : t.coef < 0

\* Eq(l, r): [raises, eq].  Eq sympifies both operands, which raises
\* SympifyError on a Python list, and evaluates when lhs - rhs is decided.
EqScalar(l, r, dif) ==
    IF IsNumber(dif) THEN [raises |-> FALSE, eq |-> BooleanAtom(dif.k = 0)]
    ELSE IF SignDefinite(dif) THEN [raises |-> FALSE, eq |-> BooleanAtom(FALSE)]
    ELSE [raises |-> FALSE, eq |-> Relational(l, r)]

EqOf(l, r) ==
    IF l.kind = "list" \/ r.kind = "list"
    THEN [raises |-> TRUE, eq |-> BooleanAtom(FALSE)]
    ELSE EqScalar(l, r, Sub(l, r))

\* equation.free_symbols
EqFreeSymbols(eq) == IF eq.rel THEN FreeSymbols(eq.lhs) \cup FreeSymbols(eq.rhs) ELSE {}

\* equation.atoms(Abs)
EqAbsAtoms(eq) == IF eq.rel THEN AbsAtoms(eq.lhs) \cup AbsAtoms(eq.rhs) ELSE {}

(***************************************************************************)
(* Variable selection (lines 63-67)                                        *)
(***************************************************************************)
RECURSIVE LexLess(_, _)
LexLess(s, t) ==
    IF t = <<>> THEN FALSE
    ELSE IF s = <<>> THEN TRUE
    ELSE IF s[1] # t[1] THEN s[1] < t[1]
    ELSE LexLess(Tail(s), Tail(t))

StrLess(u, v) == LexLess(CodePoints[u], CodePoints[v])

\* sorted(symbols, key=str)
RECURSIVE SortedByStr(_)
SortedByStr(S) ==
    IF S = {} THEN <<>>
    ELSE LET m == CHOOSE u \in S : \A v \in S \ {u} : StrLess(u, v)
         IN  <<m>> \o SortedByStr(S \ {m})

\* The last name of the sorted list instead of the first.
SelectVarLast(syms) == LET s == SortedByStr(syms) IN s[Len(s)]

SelectVar(syms) ==
    IF Cardinality(syms) > 1 THEN SortedByStr(syms)[1]
    ELSE CHOOSE v \in syms : TRUE

(***************************************************************************)
(* solve(eq, var, dict=True) on linear equations: a sequence of values     *)
(* num/den (den > 0), or NotImplementedError when var is under an Abs.     *)
(***************************************************************************)
\* The root of dif = 0 in v, dif = a*v + rest.
SolveLinear(dif, v) ==
    IF v \in InnerSymbols(dif) THEN [raises |-> TRUE, sols |-> <<>>]
    ELSE IF dif.cf[v] = 0 THEN [raises |-> FALSE, sols |-> <<>>]
    ELSE IF dif.cf[v] > 0
    THEN [raises |-> FALSE,
          sols |-> <<[num |-> Scale([dif EXCEPT !.cf[v] = 0], -1), den |-> dif.cf[v]]>>]
    ELSE [raises |-> FALSE,
          sols |-> <<[num |-> [dif EXCEPT !.cf[v] = 0], den |-> -dif.cf[v]]>>]

SolveOf(eq, v) ==
    IF ~eq.rel THEN [raises |-> FALSE, sols |-> <<>>]
    ELSE SolveLinear(Sub(eq.lhs, eq.rhs), v)

(***************************************************************************)
(* format_value (lines 93-96)                                              *)
(***************************************************************************)
\* n/d (d > 0) rounded to an integer, ties to even.
RoundHalfEven(n, d) ==
    LET q == n \div d
        r == n % d
    IN  IF 2 * r < d THEN q
        ELSE IF 2 * r > d THEN q + 1
        ELSE IF q % 2 = 0 THEN q ELSE q + 1

\* n/d cut towards zero.
Truncate(n, d) == IF n >= 0 THEN n \div d ELSE -((-n) \div d)

\* One fractional digit by cutting the rest off instead of rounding.
OneDecimalTruncated(n, d) == Truncate(10 * n, d)

\* f"{x:.1f}": the numeral with one fractional digit, kept as its tenths.
OneDecimal(n, d) == RoundHalfEven(10 * n, d)

NoValue == [num |-> NoExpr, den |-> 1]

\* A number renders with one decimal, anything else as str(value).
FormatValue(value) ==
    IF IsNumber(value.num)
    THEN [isnum |-> TRUE, tenths |-> OneDecimal(value.num.k, value.den), sym |-> NoValue]
    ELSE [isnum |-> FALSE, tenths |-> 0, sym |-> value]


(***************************************************************************)
(* Solve dispatch (lines 70-88)                                            *)
(***************************************************************************)
\* other_side of line 77, for the single Abs atom of the equation.
OtherSide(eq) ==
    LET abs_expr == CHOOSE t \in EqAbsAtoms(eq) : TRUE
    IN  IF abs_expr \in AbsAtoms(eq.lhs) THEN eq.rhs ELSE eq.lhs

\* The case split taken whatever the number of absolute-value terms.
StrategyAnyAbs(eq) ==
    IF EqAbsAtoms(eq) # {}
    THEN IF IsNumber(OtherSide(eq)) THEN "split" ELSE "fallback"
    ELSE "general"

\* The branch of lines 72-88 that runs.
Strategy(eq) ==
    LET abs_atoms == EqAbsAtoms(eq)
    IN  IF abs_atoms # {}
        THEN IF Cardinality(abs_atoms) = 1
             THEN IF IsNumber(OtherSide(eq)) THEN "split" ELSE "fallback"
             ELSE "fallback"
        ELSE "general"

SolveCall(eq, reals) == [eq |-> eq, reals |-> reals]

\* inner_expr of line 76.
InnerOf(eq) == InnerExpr(CHOOSE t \in EqAbsAtoms(eq) : TRUE)

\* The two branch equations solved in the opposite order.
BranchCallsSwapped(inner_expr, other_side) ==
    <<SolveCall(EqOf(inner_expr, Scale(other_side, -1)).eq, FALSE),
      SolveCall(EqOf(inner_expr, other_side).eq, FALSE)>>

\* Lines 80-82: solve(eq1) then solve(eq2).
BranchCalls(inner_expr, other_side) ==
    <<SolveCall(EqOf(inner_expr, other_side).eq, FALSE),
      SolveCall(EqOf(inner_expr, Scale(other_side, -1)).eq, FALSE)>>

SplitCalls(eq) == BranchCalls(InnerOf(eq), OtherSide(eq))

\* The calls of solve the chosen branch makes, in order.
SolveCallsOf(eq, strategy) ==
    IF strategy = "split" THEN SplitCalls(eq)
    ELSE IF strategy = "fallback" THEN <<SolveCall(eq, TRUE)>>
    ELSE <<SolveCall(eq, FALSE)>>

\* Runs the calls in order: the calls made, the bindings gathered, and whether
\* one raised (the calls after it are not made).
RECURSIVE RunCalls(_, _, _, _)
RunCalls(todo, v, made, sols) ==
    IF todo = <<>> THEN [raises |-> FALSE, made |-> made, sols |-> sols]
    ELSE IF SolveOf(todo[1].eq, v).raises
    THEN [raises |-> TRUE, made |-> Append(made, todo[1]), sols |-> <<>>]
    ELSE RunCalls(Tail(todo), v, Append(made, todo[1]), sols \o SolveOf(todo[1].eq, v).sols)

(***************************************************************************)
(* Result string (lines 90-101): its parts in order.                       *)
(***************************************************************************)
NoResult == [kind |-> "none", var |-> "", items |-> <<>>]

\* The formatting of lines 93-101 without the test of line 90.
FormatResultNoEmptyCheck(v, sols) ==
    [kind |-> "solutions", var |-> v, items |-> [i \in 1..Len(sols) |-> FormatValue(sols[i])]]

FormatResult(v, sols) ==
    IF sols = <<>> THEN [kind |-> "no solution", var |-> v, items |-> <<>>]
    ELSE IF Len(sols) = 1
    THEN [kind |-> "solutions", var |-> v, items |-> <<FormatValue(sols[1])>>]
    ELSE [kind |-> "solutions", var |-> v, items |-> [i \in 1..Len(sols) |-> FormatValue(sols[i])]]

(***************************************************************************)
(* Exceptions and responses                                                *)
(***************************************************************************)
NoError == [cls |-> "none", msg |-> ""]

ValueError(msg) == [cls |-> "ValueError", msg |-> msg]

\* isinstance(e, ValueError): SympifyError is a subclass of ValueError.
IsValueError(cls) == cls \in {"ValueError", "SympifyError"}

NoResponse == [status |-> 0, field |-> "none", msg |-> "", result |-> NoResult]

MissingMsg == "Missing 'equation' query parameter"

\* The parameter as sent, without strip().
QueryParamRaw(req) == IF req.present THEN req.text ELSE <<>>

\* (request.args.get("equation") or "").strip()
QueryParam(req) == Strip(IF req.present THEN req.text ELSE <<>>)

\* equation_str.split("=", 1)
Split1(s) ==
    LET i == IndexOf(s, "=")
    IN  IF i = 0 THEN <<s>> ELSE <<SubSeq(s, 1, i - 1), SubSeq(s, i + 1, Len(s))>>


(***************************************************************************)
(* Requests: the equation parameter of GET /solve                          *)
(***************************************************************************)
Nums == 0..MaxNum

EqSign == <<" ", "=", " ">>

Plus == <<" ", "+", " ">>

Minuses == {<<"-">>, <<UMINUS>>, MinusLiteral}

\* "2x + 1 = 3",  "3 = 1 + 2x",  "2x - 1 = 3" (three minus spellings),
\* "x^1 + 1 = 3",  "2x - 1"
LinearTexts ==
    {Num(a) \o <<"x">> \o Plus \o Num(b) \o EqSign \o Num(c) : a, b, c \in Nums}
    \cup {Num(c) \o EqSign \o Num(b) \o Plus \o Num(a) \o <<"x">> : a, b, c \in Nums}
    \cup UNION {{Num(a) \o <<"x", " ">> \o m \o <<" ">> \o Num(b) \o EqSign \o Num(c)
                   : a, b, c \in Nums} : m \in Minuses}
    \cup {<<"x", "^", "1">> \o Plus \o Num(b) \o EqSign \o Num(c) : b, c \in Nums}
    \cup {Num(a) \o <<"x", " ", "-", " ">> \o Num(b) : a, b \in Nums}

\* "|x - 1| = 3",  "3 = |x + 1|",  "|x| + 1 = 3",  "|x - 1| = -3",  "|x - 1| - 3"
AbsTexts ==
    {<<"|", "x", " ", "-", " ">> \o Num(b) \o <<"|">> \o EqSign \o Num(c) : b, c \in Nums}
    \cup {Num(c) \o EqSign \o <<"|", "x">> \o Plus \o Num(b) \o <<"|">> : b, c \in Nums}
    \cup {<<"|", "x", "|">> \o Plus \o Num(b) \o EqSign \o Num(c) : b, c \in Nums}
    \cup {<<"|", "x", " ", "-", " ">> \o Num(b) \o <<"|">> \o EqSign \o <<"-">> \o Num(c)
            : b, c \in Nums}
    \cup {<<"|", "x", " ", "-", " ">> \o Num(b) \o <<"|", " ", "-", " ">> \o Num(c)
            : b, c \in Nums}
    \cup {<<"x", " ", "+", " ", "|", "y", " ", "-", " ">> \o Num(b) \o <<"|">> \o EqSign \o Num(c)
            : b, c \in Nums}
    \cup {<<"|", "x", "|", " ", "+", " ", "|", "y", "|">> \o EqSign \o Num(c) : c \in Nums}
    \cup {<<"|", "x", "|", " ", "=", " ", "y">>,
          <<"x", " ", "+", " ", "|", "y", "|", " ", "=", " ", "y">>,
          <<"|", "x", "|", " ", "=", " ", "|", "x", "|", " ", "+", " ", "x">>}

\* "2x + 1y = 3",  "1y + 2x = 3",  "y = 2x + 3",  "y + x + a = 3",  "x + y = x + 3"
MultiTexts ==
    {Num(a) \o <<"x">> \o Plus \o Num(b) \o <<"y">> \o EqSign \o Num(c) : a, b, c \in Nums}
    \cup {Num(b) \o <<"y">> \o Plus \o Num(a) \o <<"x">> \o EqSign \o Num(c) : a, b, c \in Nums}
    \cup {<<"y">> \o EqSign \o Num(a) \o <<"x">> \o Plus \o Num(c) : a, c \in Nums}
    \cup {<<"y", " ", "+", " ", "x", " ", "+", " ", "a">> \o EqSign \o Num(c) : c \in Nums}
    \cup {<<"x", " ", "+", " ", "y", " ", "=", " ", "x", " ", "+", " ">> \o Num(c) : c \in Nums}

\* Empty sides, no variable, list operands, blank parameters.
EdgeTexts ==
    {Num(a) \o <<"x", " ", "=">> : a \in Nums}
    \cup {<<"=", " ">> \o Num(c) : c \in Nums}
    \cup {Num(c) : c \in Nums}
    \cup {Num(b) \o EqSign \o Num(c) : b, c \in Nums}
    \cup {<<" ">> \o Num(a) \o <<"x", " ", "=", " ">> \o Num(c) \o <<" ", "\t">> : a, c \in Nums}
    \cup {<<"=">>, <<" ", "=", " ">>, <<"x", " ", "=", " ", "=">>,
          <<"[", "1", ",", " ", "2", "]", " ", "=", " ", "x">>,
          <<"x", " ", "=", " ", "[", "1", ",", " ", "2", "]">>,
          <<"[", "1", ",", " ", "2", "]">>,
          <<>>, <<" ">>, <<" ", "\t", " ">>}

Texts == LinearTexts \cup AbsTexts \cup MultiTexts \cup EdgeTexts

Requests == {[present |-> FALSE, text |-> <<>>]} \cup {[present |-> TRUE, text |-> s] : s \in Texts}

(***************************************************************************)
(* State                                                                   *)
(***************************************************************************)
VARIABLES
    request,       \* the request being served
    pc,            \* where its handling stands
    calls,         \* invocations of solve_equation
    equation_str,  \* solve_equation's equation_str
    equation,      \* the parsed equation
    var,           \* the solve variable
    strategy,      \* the dispatch branch taken
    solve_calls,   \* the calls of solve made, in order
    solutions,     \* the bindings gathered
    raised,        \* the exception leaving solve_equation
    result,        \* the string solve_equation returns
    response       \* the HTTP response

vars == <<request, pc, calls, equation_str, equation, var, strategy, solve_calls,
          solutions, raised, result, response>>

Init ==
    /\ request \in Requests
    /\ pc = "recv"
    /\ calls = 0
    /\ equation_str = <<>>
    /\ equation = BooleanAtom(FALSE)
    /\ var = ""
    /\ strategy = "none"
    /\ solve_calls = <<>>
    /\ solutions = <<>>
    /\ raised = NoError
    /\ result = NoResult
    /\ response = NoResponse

\* solve(), lines 119-124: the parameter check and the call of solve_equation.
Solve ==
    /\ pc = "recv"
    /\ IF QueryParam(request) = <<>>
       THEN /\ response' = [status |-> 400, field |-> "error", msg |-> MissingMsg,
                            result |-> NoResult]
            /\ pc' = "done"
            /\ UNCHANGED <<calls, equation_str>>
       ELSE /\ calls' = calls + 1
            /\ equation_str' = QueryParam(request)
            /\ pc' = "normalize"
            /\ UNCHANGED response
    /\ UNCHANGED <<request, equation, var, strategy, solve_calls, solutions, raised, result>>

\* solve_equation, lines 24-32.
Normalize ==
    /\ pc = "normalize"
    /\ equation_str' = Normalise(equation_str)
    /\ pc' = "parse"
    /\ UNCHANGED <<request, calls, equation, var, strategy, solve_calls, solutions,
                   raised, result, response>>

\* parse_expr's own exception, as it would leave without lines 46-47.
ParseErrorUnwrapped(msg) ==
    [raised |-> [cls |-> "SyntaxError", msg |-> msg], eq |-> BooleanAtom(FALSE)]

\* Lines 46-47 and 54-55: whatever parse_expr raises is raised again as a
\* ValueError.
ParseError(msg) == [raised |-> ValueError(msg), eq |-> BooleanAtom(FALSE)]

\* Line 49, outside the try of lines 43-47: what Eq raises leaves as it is.
EquationOf(e) ==
    IF e.raises
    THEN [raised |-> [cls |-> "SympifyError", msg |-> "SympifyError"],
          eq |-> BooleanAtom(FALSE)]
    ELSE [raised |-> NoError, eq |-> e.eq]

\* Lines 43-49.
ParseSides(left, right) ==
    IF ~left.ok \/ ~right.ok THEN ParseError("Could not parse equation")
    ELSE EquationOf(EqOf(left.e, right.e))

\* Lines 37-40.
ParseParts(parts) ==
    IF Len(parts) # 2 THEN ParseError("Invalid equation format")
    ELSE ParseSides(ParseExpr(Strip(parts[1])), ParseExpr(Strip(parts[2])))

\* Lines 51-55: parse_expr and Eq(expr, 0) are both inside the try.
ExpressionEquation(expr) ==
    IF ~expr.ok THEN ParseError("Could not parse expression")
    ELSE IF EqOf(expr.e, Const(0)).raises THEN ParseError("Could not parse expression")
    ELSE [raised |-> NoError, eq |-> EqOf(expr.e, Const(0)).eq]

\* solve_equation, lines 35-55: [raised, eq].
ParseEquation(s) ==
    IF Contains(s, "=") THEN ParseParts(Split1(s))
    ELSE ExpressionEquation(ParseExpr(Strip(s)))

Parsed(p) ==
    /\ raised' = p.raised
    /\ equation' = p.eq
    /\ pc' = IF p.raised.cls = "none" THEN "select" ELSE "raise"

Parse ==
    /\ pc = "parse"
    /\ Parsed(ParseEquation(equation_str))
    /\ UNCHANGED <<request, calls, equation_str, var, strategy, solve_calls, solutions,
                   result, response>>

\* solve_equation, lines 58-67.
SelectVariable ==
    /\ pc = "select"
    /\ IF EqFreeSymbols(equation) = {}
       THEN /\ raised' = ValueError("No variable found in the equation")
            /\ pc' = "raise"
            /\ UNCHANGED var
       ELSE /\ var' = SelectVar(EqFreeSymbols(equation))
            /\ pc' = "dispatch"
            /\ UNCHANGED raised
    /\ UNCHANGED <<request, calls, equation_str, equation, strategy, solve_calls, solutions,
                   result, response>>

\* solve_equation, lines 70-88 (and 103-104 when solve raises).
Solved(r) ==
    /\ solve_calls' = r.made
    /\ solutions' = r.sols
    /\ raised' = IF r.raises THEN ValueError("Could not solve equation") ELSE raised
    /\ pc' = IF r.raises THEN "raise" ELSE "format"

Dispatch ==
    /\ pc = "dispatch"
    /\ strategy' = Strategy(equation)
    /\ Solved(RunCalls(SolveCallsOf(equation, Strategy(equation)), var, <<>>, <<>>))
    /\ UNCHANGED <<request, calls, equation_str, equation, var, result, response>>

\* solve_equation, lines 90-101.
Format ==
    /\ pc = "format"
    /\ result' = FormatResult(var, solutions)
    /\ pc' = "return"
    /\ UNCHANGED <<request, calls, equation_str, equation, var, strategy, solve_calls,
                   solutions, raised, response>>

\* solve(), lines 125-129.
Respond ==
    /\ pc \in {"return", "raise"}
    /\ response' =
           IF pc = "return"
           THEN [status |-> 200, field |-> "result", msg |-> "", result |-> result]
           ELSE IF IsValueError(raised.cls)
           THEN [status |-> 400, field |-> "error", msg |-> raised.msg, result |-> NoResult]
           ELSE [status |-> 500, field |-> "error", msg |-> "Error solving equation",
                 result |-> NoResult]
    /\ pc' = "done"
    /\ UNCHANGED <<request, calls, equation_str, equation, var, strategy, solve_calls,
                   solutions, raised, result>>

Next == Solve \/ Normalize \/ Parse \/ SelectVariable \/ Dispatch \/ Format \/ Respond

Spec == Init /\ [][Next]_vars


(***************************************************************************)
(* Properties                                                              *)
(***************************************************************************)
Done == pc = "done"

\* The parameter is missing, empty, or only whitespace.
Blank(req) == ~req.present \/ \A i \in 1..Len(req.text) : req.text[i] \in Whitespace

AllBlank(s) == \A i \in 1..Len(s) : s[i] \in Whitespace

\* C1: once a variable is selected it is a free symbol of the equation and no
\* other free symbol has a smaller name in string order, whichever side each
\* symbol stands on; a single free symbol is the one chosen.
C1_VariableIsLexFirst ==
    var # "" =>
        /\ var \in EqFreeSymbols(equation)
        /\ \A v \in EqFreeSymbols(equation) :
               v = var \/ LexLess(CodePoints[var], CodePoints[v])

\* y stands alone on the left and first in the text, x on the right: x is chosen.
C1_Witness ==
    /\ var = "x"
    /\ FreeSymbols(equation.lhs) = {"y"}
    /\ "x" \in FreeSymbols(equation.rhs)

\* C2: the dispatch runs exactly one of the three strategies: the general
\* solver without a real domain when there is no Abs term, the two-branch
\* split when there is exactly one Abs term and the opposite side is a number,
\* and the full equation over the reals in every remaining case.
C2_DispatchTotalExclusive ==
    strategy # "none" =>
        LET atoms == EqAbsAtoms(equation)
            numeric == /\ Cardinality(atoms) = 1
                       /\ \/ atoms \subseteq AbsAtoms(equation.lhs) /\ IsNumber(equation.rhs)
                          \/ atoms \subseteq AbsAtoms(equation.rhs) /\ IsNumber(equation.lhs)
        IN  /\ strategy \in {"general", "split", "fallback"}
            /\ (strategy = "general") <=> (atoms = {})
            /\ (strategy = "split") <=> numeric
            /\ (strategy = "fallback") <=> (atoms # {} /\ ~numeric)
            /\ strategy = "general" =>
                   solve_calls = <<[eq |-> equation, reals |-> FALSE]>>
            /\ strategy = "fallback" =>
                   solve_calls = <<[eq |-> equation, reals |-> TRUE]>>
            /\ strategy = "split" =>
                   /\ Len(solve_calls) \in {1, 2}
                   /\ \A i \in 1..Len(solve_calls) :
                          ~solve_calls[i].reals /\ solve_calls[i].eq # equation

\* Two Abs terms against a plain number: the fallback ran, not the split.
C2_Witness ==
    /\ strategy = "fallback"
    /\ Cardinality(EqAbsAtoms(equation)) = 2
    /\ IsNumber(equation.rhs)

\* The number c on the side opposite to the Abs term, in the split.
SplitBound == IF IsNumber(equation.rhs) THEN equation.rhs.k ELSE equation.lhs.k

SplitInner == CHOOSE t \in EqAbsAtoms(equation) : TRUE

\* The numeral with tenths t is the one-decimal rendering of n/d.
NearestTenth(t, n, d) == 2 * AbsInt(10 * n - d * t) <= AbsInt(d)

LinearNumberForm ==
    /\ result.kind = "solutions"
    /\ Contains(equation_str, "=")
    /\ equation.rel
    /\ IsNumber(equation.rhs)
    /\ equation.lhs.ab = {}
    /\ FreeSymbols(equation.lhs) = {var}

\* C4 as stated: the returned value, put back for the variable, satisfies the
\* equation: a*(t/10) + k = c.
C4_RoundTripExact ==
    LinearNumberForm =>
        \A i \in 1..Len(result.items) :
            /\ result.items[i].isnum
            /\ equation.lhs.cf[var] * result.items[i].tenths + 10 * equation.lhs.k
                   = 10 * equation.rhs.k

\* C4 amended: the returned value is the root rounded to one decimal; it is
\* within 0.05 of the root, and satisfies the equation when the root has at
\* most one decimal digit.
C4_RoundTripToOneDecimal ==
    LinearNumberForm =>
        /\ Len(result.items) = 1
        /\ result.items[1].isnum
        /\ NearestTenth(result.items[1].tenths, equation.rhs.k - equation.lhs.k,
                        equation.lhs.cf[var])
        /\ (10 * (equation.rhs.k - equation.lhs.k)) % AbsInt(equation.lhs.cf[var]) = 0 =>
               equation.lhs.cf[var] * result.items[1].tenths + 10 * equation.lhs.k
                   = 10 * equation.rhs.k

\* 3x + k = c with a root that has no one-decimal numeral.
C4_Witness ==
    /\ Done
    /\ LinearNumberForm
    /\ response.status = 200
    /\ equation.lhs.cf[var] = 3
    /\ (equation.rhs.k - equation.lhs.k) % 3 # 0

\* C5: when the dispatch yields no binding, solve_equation returns the
\* no-solution report naming the solve variable, raises nothing, and the
\* response is 200 with a result field.
C5_EmptyIsReported ==
    /\ (pc = "return" /\ solutions = <<>>) =>
           /\ raised = NoError
           /\ result.kind = "no solution"
           /\ result.var = var
           /\ var \in EqFreeSymbols(equation)
    /\ (Done /\ strategy # "none" /\ raised = NoError /\ solutions = <<>>) =>
           /\ response.status = 200
           /\ response.field = "result"
           /\ response.result.kind = "no solution"
           /\ response.result.var = var

\* x + y = x + c: no binding for x, reported with 200.
C5_Witness ==
    /\ Done
    /\ strategy = "general"
    /\ solutions = <<>>
    /\ response.status = 200
    /\ response.result.kind = "no solution"

\* C6: a missing, empty or all-whitespace parameter is answered 400 with the
\* missing-parameter error and solve_equation is never invoked; every other
\* request invokes it exactly once.
C6_MissingParameter ==
    /\ calls \in {0, 1}
    /\ pc \notin {"recv", "done"} => calls = 1 /\ ~Blank(request)
    /\ Done =>
           IF Blank(request)
           THEN /\ calls = 0
                /\ response.status = 400
                /\ response.field = "error"
                /\ response.msg = MissingMsg
           ELSE /\ calls = 1
                /\ response.msg # MissingMsg

\* A parameter of whitespace only, refused.
C6_Witness ==
    /\ Done
    /\ request.present
    /\ Len(request.text) > 0
    /\ AllBlank(request.text)
    /\ response.status = 400
    /\ calls = 0

\* C7: after the normalisation steps the string holds no '^' and no U+2212.
C7_NormalisedAscii ==
    pc \in {"parse", "select", "dispatch", "format", "return", "raise", "done"} /\ calls = 1 =>
        \A i \in 1..Len(equation_str) : equation_str[i] \notin {"^", UMINUS}

\* The text before and after the first '=' of the normalised string.
LeftText == SubSeq(equation_str, 1, IndexOf(equation_str, "=") - 1)

RightText == SubSeq(equation_str, IndexOf(equation_str, "=") + 1, Len(equation_str))

\* C8: an equation whose left or right side is empty after trimming fails
\* with the invalid-equation-format error.
C8_EmptySideFormatError ==
    (Done /\ calls = 1 /\ Contains(equation_str, "=")
          /\ (AllBlank(LeftText) \/ AllBlank(RightText))) =>
        /\ response.status = 400
        /\ response.msg = "Invalid equation format"

\* d times the value of e at var = n/d (d > 0), for e over var and the one
\* Abs atom of the equation.
ValueTimes(e, n, d) ==
    d * e.k + e.cf[var] * n
        + CoefOf(e.ab, SplitInner) * AbsInt(d * SplitInner.k + SplitInner.cf[var] * n)

\* C9: every value the two-branch split returns satisfies the equation.
C9_SplitSound ==
    (strategy = "split" /\ EqFreeSymbols(equation) = {var}) =>
        \A i \in 1..Len(solutions) :
            ValueTimes(equation.lhs, solutions[i].num.k, solutions[i].den)
                = ValueTimes(equation.rhs, solutions[i].num.k, solutions[i].den)

====
